---- MODULE Spec2Model ----
(***************************************************************************)
(* Storage adapters of the SOP tool: the file-host adapter                 *)
(* (github-repo-storage.js), the folder-store adapter (Google Drive,       *)
(* unnamed/part_000), the thin-proxy adapter (shared-sop-api.js) and the   *)
(* proxy service (cloud-run-backend.js).                                   *)
(*                                                                         *)
(* Every async function is a process position (pc) per caller; one action  *)
(* is one remote round trip together with the synchronous code that runs   *)
(* up to the next await.  The remote stores (GitHub contents API, Drive    *)
(* files API) are the environment: their answers are either the answer the *)
(* store's state determines or an injected failure.                        *)
(***************************************************************************)
EXTENDS Integers, Sequences, FiniteSets, TLC

VARIABLES
    backend,     \* which adapter this deployment uses
    now,         \* Date.now()
    calls,       \* number of adapter calls started so far
    pc,          \* position of each caller inside its async function
    loc,         \* locals of the running call of each caller
    ret,         \* outcome of the call that finished in the last step
    ghEnabled,   \* githubRepoStorage.isEnabled
    repoExists,  \* the GitHub repository exists
    ghFiles,     \* sops/<name>.json in the repository: sha and content
    ghNextSha,   \* next blob version the repository hands out
    wire,        \* the request carrying the session token sent in the last step
    gd,          \* googleDriveStorage
    ls,          \* localStorage: googleDriveConfig and googleDriveToken
    gapi,        \* window.gapi: client library state and its signed-in user
    dFolders,    \* Drive: folders that exist
    dFiles,      \* Drive: files (id, name, parent, content)
    dNextId,     \* Drive: next file id
    srv,         \* proxy service: FOLDER_ID and the service account key
    baseUrl,     \* thin-proxy adapter: SOP_SHARED_API_URL is set
    nwrites,     \* history: number of successful writes to the store
    used,        \* history: versions a successful write was based on
    lastPut,     \* history: name and document of the last successful put,
                 \* forgotten once that name is deleted
    gone         \* history: the name whose delete last returned true,
                 \* forgotten once that name is written again

vars == <<backend, now, calls, pc, loc, ret, wire,
          ghEnabled, repoExists, ghFiles, ghNextSha,
          gd, ls, gapi, dFolders, dFiles, dNextId, srv, baseUrl,
          nwrites, used, lastPut, gone>>

ghVars == <<ghEnabled, repoExists, ghFiles, ghNextSha>>
histVars == <<nwrites, used, lastPut, gone>>
gdVars == <<gd, ls, gapi>>
pxVars == <<srv, baseUrl>>
dVars == <<dFolders, dFiles, dNextId>>

-----------------------------------------------------------------------------
(* Bounds *)

MaxTime == 1
MaxCalls == 3
MaxWrites == 2

Procs == {"p1", "p2"}

\* the page of the folder-store adapter runs one call at a time here
FolderProcs == {"p1"}

-----------------------------------------------------------------------------
(* Documents and their serialised forms *)

NoId == "none"
NoTime == -1
NoSha == 0

\* `sop-${Date.now()}`
GenId(t) == "sop-" \o ToString(t)

UserIds == {"sop-a", "sop-404"}
GenIds == {GenId(t) : t \in 0..MaxTime}
JunkName == "junk"
AllNames == UserIds \cup GenIds \cup {JunkName}

\* ids handed to get and delete
Targets == UserIds

\* directory listings of the file host come back ordered by name
NameRank(n) ==
    IF n = JunkName THEN 0
    ELSE IF n \in GenIds THEN 1 + (CHOOSE t \in 0..MaxTime : GenId(t) = n)
    ELSE IF n = "sop-404" THEN MaxTime + 2
    ELSE MaxTime + 3

\* error.message.includes('404') is also true of a message quoting such a name
Has404(n) == n = "sop-404"

\* titles are sequences of UTF-16 code units: <<65>> is A, <<34, 233>> a quote
\* and e-acute, <<8212>> an em dash
Doc(m, i, t, s) == [meta |-> m, sopId |-> i, title |-> t, savedAt |-> s]

NoMetaDoc == Doc(FALSE, NoId, <<>>, NoTime)

\* documents handed to the folder-store adapter
FolderDocs ==
    { Doc(TRUE, "sop-a", <<34, 233>>, NoTime),
      Doc(TRUE, NoId, <<65>>, NoTime),
      NoMetaDoc }

\* documents handed to save: with and without id, with savedAt, a title
\* outside Latin-1, and one without meta
InputDocs ==
    { Doc(TRUE, "sop-a", <<34, 233>>, NoTime),
      Doc(TRUE, "sop-404", <<65>>, 0),
      Doc(TRUE, NoId, <<65>>, NoTime),
      Doc(TRUE, "sop-a", <<8212>>, NoTime),
      NoMetaDoc }

NoDoc == [meta |-> FALSE, sopId |-> "nodoc", title |-> <<>>, savedAt |-> NoTime]

\* JSON string literal: quote and backslash are escaped
RECURSIVE Escape(_)
Escape(s) ==
    IF s = <<>> THEN <<>>
    ELSE (IF Head(s) \in {34, 92} THEN <<92, Head(s)>> ELSE <<Head(s)>>)
             \o Escape(Tail(s))

RECURSIVE Unescape(_)
Unescape(s) ==
    IF s = <<>> THEN <<>>
    ELSE IF Head(s) = 92 /\ Len(s) >= 2
         THEN <<s[2]>> \o Unescape(Tail(Tail(s)))
         ELSE <<Head(s)>> \o Unescape(Tail(s))

Text(k, m, i, lit, s) ==
    [kind |-> k, meta |-> m, sopId |-> i, lit |-> lit, savedAt |-> s]

CorruptText == Text("corrupt", FALSE, NoId, <<>>, NoTime)
EmptyText == Text("empty", FALSE, NoId, <<>>, NoTime)

\* JSON.stringify(sop, null, 2)
JSONStringify(d) == Text("json", d.meta, d.sopId, Escape(d.title), d.savedAt)

\* JSON.parse throws on anything that is not JSON
JSONParseOk(x) == x.kind = "json"
JSONParse(x) == Doc(x.meta, x.sopId, Unescape(x.lit), x.savedAt)

\* btoa throws InvalidCharacterError on a code unit above 255
BtoaOk(x) == \A k \in 1..Len(x.lit) : x.lit[k] <= 255
Btoa(x) == [b64 |-> x]
Atob(c) == c.b64

-----------------------------------------------------------------------------
(* Callers *)

NoMap == [n \in {} |-> NoDoc]

Idle ==
    [op |-> "none", id |-> NoId, doc |-> NoDoc, sha |-> NoSha,
     todo |-> {}, listed |-> {}, good |-> {}, sops |-> NoMap,
     dup |-> FALSE, epoch |-> -1, folder |-> 0, file |-> 0, bearer |-> -1,
     auth |-> FALSE, looked |-> FALSE, fresh |-> FALSE,
     settled |-> "pending", poll |-> FALSE, timer |-> FALSE, loading |-> FALSE]

NoRet ==
    [op |-> "none", id |-> NoId, result |-> "none", status |-> "none",
     doc |-> NoDoc, sops |-> NoMap, sha |-> NoSha, cur |-> NoSha,
     changed |-> FALSE, listed |-> {}, visited |-> {}, good |-> {},
     dup |-> FALSE,
     clean |-> FALSE, sent |-> FALSE, expect |-> NoDoc,
     wfail |-> FALSE, auth |-> FALSE, authFailed |-> FALSE,
     http |-> "none", threw |-> FALSE, reqs |-> 0,
     file |-> 0, repaired |-> FALSE]

\* no request carrying the session token was sent
NoWire == [bearer |-> -1, at |-> -1]

\* the call of p ends here with outcome r
Finish(p, r) ==
    /\ pc' = [pc EXCEPT ![p] = "idle"]
    /\ loc' = [loc EXCEPT ![p] = Idle]
    /\ ret' = r
    /\ wire' = NoWire

\* the call of p goes on to its next await with locals l
Goto(p, label, l) ==
    /\ pc' = [pc EXCEPT ![p] = label]
    /\ loc' = [loc EXCEPT ![p] = l]
    /\ ret' = NoRet
    /\ wire' = NoWire

\* the same, the next await being a fetch that carries the session token
GotoFetch(p, label, l) ==
    /\ pc' = [pc EXCEPT ![p] = label]
    /\ loc' = [loc EXCEPT ![p] = [l EXCEPT !.bearer = gd.accessToken]]
    /\ ret' = NoRet
    /\ wire' = [bearer |-> gd.accessToken, at |-> now]

\* p starts a call; callers are interchangeable, so the second one is the
\* one that starts while the first is in flight
Begin(p) ==
    /\ pc[p] = "idle"
    /\ p = "p1" \/ pc["p1"] # "idle"
    /\ calls < MaxCalls
    /\ calls' = calls + 1

\* p starts a save: the writes done and under way stay below MaxWrites
BeginSave(p) ==
    /\ Begin(p)
    /\ nwrites + Cardinality({q \in Procs : loc[q].op = "save"}) < MaxWrites

\* Date.now() when the code reads the clock in this step
ClockReads(reads) == IF reads THEN now..MaxTime ELSE {now}

Outcome(o, n, res, st) ==
    [NoRet EXCEPT !.op = o, !.id = n, !.result = res, !.status = st]

NoPut == [name |-> NoId, doc |-> NoDoc]
NoneGone == [name |-> NoId, at |-> -1]

\* the document last put under name n and not written or deleted since
LastPut(n) == IF lastPut.name = n THEN lastPut.doc ELSE NoDoc

\* a delete starts: remember whether the name is known deleted, and since when
Epoch(n) == IF gone.name = n THEN gone.at ELSE -1

\* at the end of a delete: deleted before it began and not written since
Clean(l) == l.epoch # -1 /\ gone = [name |-> l.id, at |-> l.epoch]

\* a delete of name n returns res
Gone(n, res) == IF res = "true" THEN [name |-> n, at |-> nwrites] ELSE gone

\* a successful write of name n
Written(n) == IF gone.name = n THEN NoneGone ELSE gone

\* a successful delete of name n
Deleted(n) == IF lastPut.name = n THEN NoPut ELSE lastPut

MapPut(m, k, v) == [x \in DOMAIN m \cup {k} |-> IF x = k THEN v ELSE m[x]]

-----------------------------------------------------------------------------
(* The file host (GitHub contents API) as seen through githubApiRequest *)

NoFile == [sha |-> NoSha, content |-> Btoa(EmptyText)]

\* injected failures: bad credentials, transport failure
EnvFail == {"401", "net"}

GhExists(n) == repoExists /\ ghFiles[n] # NoFile

\* GET /repos/o/r
GhRepoStatus == IF repoExists THEN "200" ELSE "404"

\* GET /repos/o/r/contents/sops/<n>.json
GhGetStatus(n) == IF GhExists(n) THEN "200" ELSE "404"

\* PUT: a new path takes no sha, an existing path takes its current sha
GhPutStatus(n, sha) ==
    IF ~repoExists THEN "404"
    ELSE IF ghFiles[n] = NoFile THEN (IF sha = NoSha THEN "201" ELSE "409")
    ELSE IF sha = NoSha THEN "422"
    ELSE IF sha = ghFiles[n].sha THEN "200"
    ELSE "409"

\* DELETE: needs the current sha
GhDeleteStatus(n, sha) ==
    IF ~GhExists(n) THEN "404"
    ELSE IF sha = ghFiles[n].sha THEN "200"
    ELSE "409"

\* what githubApiRequest throws: does error.message include '404'?
\* (the 409 message quotes the path)
Includes404(status, n) ==
    \/ status = "404"
    \/ status = "409" /\ Has404(n)

Ok(status) == status \in {"200", "201"}

CurSha(n) == IF GhExists(n) THEN ghFiles[n].sha ELSE NoSha

\* the server applies a PUT of document d at name n on top of version base
GhStore(n, base, d) ==
    /\ ghFiles' = [ghFiles EXCEPT
                      ![n] = [sha |-> ghNextSha,
                              content |-> Btoa(JSONStringify(d))]]
    /\ ghNextSha' = ghNextSha + 1
    /\ nwrites' = nwrites + 1
    /\ used' = used \cup {base}
    /\ lastPut' = [name |-> n, doc |-> d]
    /\ gone' = Written(n)

\* the server applies a DELETE of name n
GhRemove(n) ==
    /\ ghFiles' = [ghFiles EXCEPT ![n] = NoFile]
    /\ lastPut' = Deleted(n)
    /\ UNCHANGED <<ghNextSha, nwrites, used>>

-----------------------------------------------------------------------------
(* saveSopToGitHubRepo / saveFileToRepo *)

SaveSopToGitHubRepo_Start(p) ==
    /\ backend = "filehost"
    /\ BeginSave(p)
    /\ \E sop \in InputDocs :
          IF ~ghEnabled
          THEN Finish(p, Outcome("save", sop.sopId, "error", "disabled"))
          ELSE Goto(p, "saveRepo", [Idle EXCEPT !.op = "save", !.doc = sop])
    /\ UNCHANGED <<backend, now, ghVars, gdVars, dVars, pxVars, histVars>>

\* the repository check, then the id and savedAt assignment
SaveSopToGitHubRepo_RepoCheck(p) ==
    /\ pc[p] = "saveRepo"
    /\ \E st \in EnvFail \cup {GhRepoStatus},
          t \in ClockReads(loc[p].doc.sopId = NoId \/ loc[p].doc.savedAt = NoTime) :
          LET sop == loc[p].doc
              sopId == IF sop.sopId # NoId THEN sop.sopId ELSE GenId(t)
              savedAt == IF sop.savedAt # NoTime THEN sop.savedAt ELSE t
          IN  /\ now' = t
              /\ IF ~Ok(st)
                 THEN Finish(p, Outcome("save", sop.sopId, "error", st))
                 ELSE IF ~sop.meta
                 THEN Finish(p, Outcome("save", sop.sopId, "error", "TypeError"))
                 ELSE Goto(p, "saveSha",
                           [loc[p] EXCEPT !.id = sopId,
                                          !.doc = Doc(TRUE, sopId, sop.title, savedAt)])
    /\ UNCHANGED <<backend, calls, ghVars, gdVars, dVars, pxVars, histVars>>

\* the sha an existing file must be updated with
ResolvedSha(st, n) == IF Ok(st) THEN ghFiles[n].sha ELSE NoSha

\* the existence check of saveFileToRepo, then btoa(JSON.stringify(content))
SaveFileToRepo_GetSha(p) ==
    /\ pc[p] = "saveSha"
    /\ \E st \in EnvFail \cup {GhGetStatus(loc[p].id)} :
          IF ~BtoaOk(JSONStringify(loc[p].doc))
          THEN Finish(p, Outcome("save", loc[p].id, "error", "InvalidCharacterError"))
          ELSE Goto(p, "savePut",
                    [loc[p] EXCEPT !.sha = ResolvedSha(st, loc[p].id)])
    /\ UNCHANGED <<backend, now, calls, ghVars, gdVars, dVars, pxVars, histVars>>

\* variant: the PUT carries whatever sha is current when it is sent
PutBodyShaRefetched(p) == CurSha(loc[p].id)

\* the sha the PUT body carries: `if (sha) body.sha = sha`
PutBodySha(p) == loc[p].sha

\* variant: the rejection of the PUT is swallowed
SaveResultMasked(st) == "true"

\* what saveSopToGitHubRepo makes of the answer to the PUT
SaveResult(st) == IF Ok(st) THEN "true" ELSE "error"

SaveFileToRepo_Put(p) ==
    /\ pc[p] = "savePut"
    /\ \E st \in EnvFail \cup {GhPutStatus(loc[p].id, PutBodySha(p))} :
          /\ IF Ok(st)
             THEN GhStore(loc[p].id, loc[p].sha, loc[p].doc)
             ELSE UNCHANGED <<ghFiles, ghNextSha, histVars>>
          /\ Finish(p, [Outcome("save", loc[p].id, SaveResult(st), st) EXCEPT
                           !.doc = loc[p].doc,
                           !.sha = loc[p].sha,
                           !.cur = CurSha(loc[p].id),
                           !.changed = (ghFiles' # ghFiles),
                           !.wfail = ~Ok(st)])
    /\ UNCHANGED <<backend, now, calls, ghEnabled, repoExists, gdVars, dVars, pxVars>>

-----------------------------------------------------------------------------
(* getFileFromRepo *)

GetFileFromRepo(p) ==
    /\ backend = "filehost"
    /\ Begin(p)
    /\ \E n \in Targets :
          IF ~ghEnabled
          THEN Finish(p, Outcome("get", n, "error", "disabled"))
          ELSE \E st \in EnvFail \cup {GhGetStatus(n)} :
                  IF st = "404"
                  THEN Finish(p, [Outcome("get", n, "null", st) EXCEPT
                                     !.expect = LastPut(n)])
                  ELSE IF ~Ok(st)
                  THEN Finish(p, Outcome("get", n, "error", st))
                  ELSE IF ~JSONParseOk(Atob(ghFiles[n].content))
                  THEN Finish(p, Outcome("get", n, "error", "SyntaxError"))
                  ELSE Finish(p, [Outcome("get", n, "doc", st) EXCEPT
                                     !.doc = JSONParse(Atob(ghFiles[n].content)),
                                     !.expect = LastPut(n)])
    /\ UNCHANGED <<backend, now, ghVars, gdVars, dVars, pxVars, histVars>>

-----------------------------------------------------------------------------
(* deleteSopFromGitHubRepo *)

DeleteSopFromGitHubRepo_Start(p) ==
    /\ backend = "filehost"
    /\ Begin(p)
    /\ \E n \in Targets :
          IF ~ghEnabled
          THEN Finish(p, Outcome("delete", n, "false", "disabled"))
          ELSE Goto(p, "delGet",
                    [Idle EXCEPT !.op = "delete", !.id = n, !.epoch = Epoch(n)])
    /\ UNCHANGED <<backend, now, ghVars, gdVars, dVars, pxVars, histVars>>

\* variant: the catch rethrows whatever failed
DeleteCatchRethrow(st, n) == "error"

\* what the catch of deleteSopFromGitHubRepo makes of a failed request
DeleteCatch(st, n) == IF Includes404(st, n) THEN "true" ELSE "error"

DeleteSopFromGitHubRepo_GetSha(p) ==
    /\ pc[p] = "delGet"
    /\ \E st \in EnvFail \cup {GhGetStatus(loc[p].id)} :
          IF Ok(st)
          THEN /\ Goto(p, "delDelete", [loc[p] EXCEPT !.sha = ghFiles[loc[p].id].sha])
               /\ UNCHANGED gone
          ELSE /\ Finish(p, [Outcome("delete", loc[p].id, DeleteCatch(st, loc[p].id), st)
                                EXCEPT !.clean = Clean(loc[p])])
               /\ gone' = Gone(loc[p].id, DeleteCatch(st, loc[p].id))
    /\ UNCHANGED <<backend, now, calls, ghVars, gdVars, dVars, pxVars, nwrites, used, lastPut>>

\* variant: the DELETE carries whatever sha is current when it is sent
DeleteBodyShaCurrent(p) == CurSha(loc[p].id)

\* `sha: file.sha` in the body of the DELETE
DeleteBodySha(p) == loc[p].sha

DeleteSopFromGitHubRepo_Delete(p) ==
    /\ pc[p] = "delDelete"
    /\ \E st \in EnvFail \cup {GhDeleteStatus(loc[p].id, DeleteBodySha(p))} :
          LET res == IF Ok(st) THEN "true" ELSE DeleteCatch(st, loc[p].id)
          IN  /\ IF Ok(st)
                 THEN GhRemove(loc[p].id)
                 ELSE UNCHANGED <<ghFiles, ghNextSha, nwrites, used, lastPut>>
              /\ gone' = Gone(loc[p].id, res)
              /\ Finish(p, [Outcome("delete", loc[p].id, res, st) EXCEPT
                               !.sha = DeleteBodySha(p),
                               !.cur = CurSha(loc[p].id),
                               !.changed = (ghFiles' # ghFiles),
                               !.clean = Clean(loc[p]),
                               !.sent = TRUE,
                               !.wfail = (~Ok(st) /\ st # "404")])
    /\ UNCHANGED <<backend, now, calls, ghEnabled, repoExists, gdVars, dVars, pxVars>>

-----------------------------------------------------------------------------
(* loadAllSopsFromGitHubRepo *)

LoadAllSopsFromGitHubRepo_Start(p) ==
    /\ backend = "filehost"
    /\ Begin(p)
    /\ IF ~ghEnabled
       THEN Finish(p, Outcome("load", NoId, "null", "disabled"))
       ELSE Goto(p, "loadRepo", [Idle EXCEPT !.op = "load"])
    /\ UNCHANGED <<backend, now, ghVars, gdVars, dVars, pxVars, histVars>>

\* variant: the outer catch rethrows
LoadCatchRethrow(p, st) ==
    Finish(p, [Outcome("load", NoId, "error", st) EXCEPT
                  !.reqs = IF pc[p] = "loadRepo" THEN 1 ELSE 2])

\* the outer catch: `return {}`
LoadCatch(p, st) ==
    Finish(p, [Outcome("load", NoId, "map", st) EXCEPT
                  !.reqs = IF pc[p] = "loadRepo" THEN 1 ELSE 2])

LoadAllSopsFromGitHubRepo_RepoCheck(p) ==
    /\ pc[p] = "loadRepo"
    /\ \E st \in EnvFail \cup {GhRepoStatus} :
          IF Ok(st) THEN Goto(p, "loadDir", loc[p])
          ELSE IF st = "404"
          THEN Finish(p, [Outcome("load", NoId, "null", st) EXCEPT !.reqs = 1])
          ELSE LoadCatch(p, st)
    /\ UNCHANGED <<backend, now, calls, ghVars, gdVars, dVars, pxVars, histVars>>

GhDir == {n \in AllNames : GhExists(n)}
GhDirStatus == IF GhDir # {} THEN "200" ELSE "404"

\* variant: a missing directory is answered like a missing repository
DirNotFoundNull(p) ==
    Finish(p, [Outcome("load", NoId, "null", "404") EXCEPT !.reqs = 2])

\* the sops/ directory does not exist yet: `return {}`
DirNotFound(p) ==
    Finish(p, [Outcome("load", NoId, "map", "404") EXCEPT !.reqs = 2])

LoadAllSopsFromGitHubRepo_ListDir(p) ==
    /\ pc[p] = "loadDir"
    /\ \E st \in EnvFail \cup {GhDirStatus} :
          IF Ok(st)
          THEN Goto(p, "loadFile", [loc[p] EXCEPT !.todo = GhDir, !.listed = GhDir])
          ELSE IF st = "404" THEN DirNotFound(p)
          ELSE LoadCatch(p, st)
    /\ UNCHANGED <<backend, now, calls, ghVars, gdVars, dVars, pxVars, histVars>>

\* the for-of loop takes the entries in listing order
NextFile(todo) == CHOOSE n \in todo : \A m \in todo : NameRank(n) <= NameRank(m)

\* the same loop over a folder listing, oldest file first
NextEntry(todo) == CHOOSE f \in todo : \A g \in todo : f <= g

\* `sop.meta.sopId || file.name.replace('.json', '')`
SopKey(sop, name) == IF sop.sopId # NoId THEN sop.sopId ELSE name

\* variant: the loop does not look at meta
EntryOkAnyJson(st, text) == Ok(st) /\ JSONParseOk(text)

\* one entry of the loop: a document enters the mapping when it could be
\* fetched and parsed and carries meta, otherwise the entry is skipped
EntryOk(st, text) == Ok(st) /\ JSONParseOk(text) /\ JSONParse(text).meta

AfterEntry(l, entry, name, st, text) ==
    IF EntryOk(st, text)
    THEN [l EXCEPT !.todo = l.todo \ {entry},
                   !.good = l.good \cup {entry},
                   !.dup = l.dup \/ SopKey(JSONParse(text), name) \in DOMAIN l.sops,
                   !.sops = MapPut(l.sops, SopKey(JSONParse(text), name),
                                   JSONParse(text))]
    ELSE [l EXCEPT !.todo = l.todo \ {entry}]

LoadDone(p, l) ==
    Finish(p, [Outcome("load", NoId, "map", "200") EXCEPT
                  !.sops = l.sops, !.listed = l.listed,
                  !.visited = l.listed \ l.todo, !.good = l.good,
                  !.dup = l.dup,
                  !.reqs = 2 + Cardinality(l.listed)])

LoadAllSopsFromGitHubRepo_File(p) ==
    /\ pc[p] = "loadFile"
    /\ LET name == NextFile(loc[p].todo)
       IN  \E st \in EnvFail \cup {GhGetStatus(name)} :
              LET l == AfterEntry(loc[p], name, name, st,
                                  Atob(ghFiles[name].content))
              IN  IF l.todo = {} THEN LoadDone(p, l) ELSE Goto(p, "loadFile", l)
    /\ UNCHANGED <<backend, now, calls, ghVars, gdVars, dVars, pxVars, histVars>>


-----------------------------------------------------------------------------
(* The folder store (Drive files API) *)

NoFolder == 0
NoTok == -1

\* lifetime of an access token (authResponse.expires_in), in clock units
ExpiresIn == 1

\* a string sent as a request body is stored as UTF-8 and read back as text:
\* an unpaired surrogate comes back as U+FFFD
Utf8Unit(c) == IF c \in 55296..57343 THEN 65533 ELSE c
Utf8(x) == [x EXCEPT !.lit = [k \in 1..Len(x.lit) |-> Utf8Unit(x.lit[k])]]

DFolderStatus(f) == IF f \in dFolders THEN "200" ELSE "404"
DHas(f) == \E x \in dFiles : x.id = f
DFile(f) == CHOOSE x \in dFiles : x.id = f
DFileStatus(f) == IF DHas(f) THEN "200" ELSE "404"
DText(f) == IF DHas(f) THEN DFile(f).text ELSE EmptyText

\* name='<n>.json' and '<f>' in parents and trashed=false
Matching(n, f) == {x \in dFiles : x.name = n /\ x.parent = f}

\* '<f>' in parents and trashed=false
InFolder(f) == {x \in dFiles : x.parent = f}

DCreate(n, f, text) ==
    /\ dFiles' = dFiles \cup {[id |-> dNextId, name |-> n, parent |-> f, text |-> text]}
    /\ dNextId' = dNextId + 1
    /\ UNCHANGED dFolders

DUpload(f, text) ==
    /\ dFiles' = (dFiles \ {DFile(f)}) \cup {[DFile(f) EXCEPT !.text = text]}
    /\ UNCHANGED <<dFolders, dNextId>>

DDelete(f) ==
    /\ dFiles' = dFiles \ {DFile(f)}
    /\ UNCHANGED <<dFolders, dNextId>>

\* answers to a request made through window.gapi.client.drive
GapiOutcomes(server) ==
    IF gapi.state # "inited" THEN {"TypeError"}
    ELSE IF ~gapi.signedIn THEN {"401"}
    ELSE EnvFail \cup {server}

\* answers to a fetch carrying `Bearer <token>` that the server sees at time t
FetchOutcomes(bearer, t, server) ==
    IF bearer = NoTok \/ t >= bearer THEN {"401"} ELSE EnvFail \cup {server}

-----------------------------------------------------------------------------
(* initGoogleDriveStorage, authenticateGoogleDrive, signOutGoogleDrive *)

NoConfig == [present |-> FALSE, ok |-> FALSE, folderId |-> NoFolder]
NoLsToken == [present |-> FALSE, access_token |-> NoTok, expires_at |-> NoTok]

FreshGd ==
    [isEnabled |-> FALSE, isAuthenticated |-> FALSE,
     accessToken |-> NoTok, folderId |-> NoFolder]

\* `tokenData.expires_at > Date.now()`
TokenValid(tok, t) == tok.expires_at > t

InitGoogleDriveStorage(g, l, t) ==
    LET g1 == IF l.config.present
              THEN [g EXCEPT !.folderId = l.config.folderId,
                             !.isEnabled = l.config.ok]
              ELSE [g EXCEPT !.isEnabled = FALSE]
    IN  IF ~l.token.present
        THEN [gd |-> [g1 EXCEPT !.isAuthenticated = FALSE], ls |-> l]
        ELSE IF TokenValid(l.token, t)
        THEN [gd |-> [g1 EXCEPT !.accessToken = l.token.access_token,
                                !.isAuthenticated = TRUE],
              ls |-> l]
        ELSE [gd |-> [g1 EXCEPT !.isAuthenticated = FALSE],
              ls |-> [l EXCEPT !.token = NoLsToken]]

\* what the catch of the calling operation makes of an exception
GdCatch(op) ==
    CASE op = "save" -> "error"
      [] op = "load" -> "null"
      [] op = "delete" -> "false"
      [] op = "auth" -> "error"

GdThrow(p, st, wfail) ==
    Finish(p, [Outcome(loc[p].op, loc[p].id, GdCatch(loc[p].op), st) EXCEPT
                  !.wfail = wfail, !.auth = loc[p].auth])

\* getSopsFolder once the session is there: verify the folder id or create one
EnterFolder(p, l, g) ==
    Goto(p, IF g.folderId # NoFolder THEN "gdFolderGet" ELSE "gdFolderCreate",
         [l EXCEPT !.folder = g.folderId])

\* authenticateGoogleDrive up to `await initGoogleAPI()`
EnterAuth(p, l, t) ==
    LET s == InitGoogleDriveStorage(gd, ls, t)
    IN  /\ gd' = s.gd
        /\ ls' = s.ls
        /\ now' = t
        /\ IF ~s.gd.isEnabled
           THEN Finish(p, [Outcome(l.op, l.id, GdCatch(l.op), "notconfigured")
                              EXCEPT !.auth = TRUE, !.authFailed = TRUE])
           ELSE Goto(p, IF gapi.state = "none" THEN "gdAuthApi" ELSE "gdAuthInit",
                     [l EXCEPT !.auth = TRUE])

\* `if (!googleDriveStorage.isAuthenticated) await authenticateGoogleDrive()`
EnterOp(p, l, t) ==
    IF ~gd.isAuthenticated
    THEN EnterAuth(p, l, t)
    ELSE EnterFolder(p, l, gd) /\ UNCHANGED <<gd, ls, now>>

\* what authenticateGoogleDrive throws reaches the caller, or the catch of
\* the operation that called it
AuthThrow(p, st) ==
    Finish(p, [Outcome(loc[p].op, loc[p].id, GdCatch(loc[p].op), st) EXCEPT
                  !.auth = TRUE, !.authFailed = TRUE])

\* variant: the catch leaves isAuthenticated as it was
AuthFailKeepsFlag(p, st) ==
    /\ AuthThrow(p, st)
    /\ UNCHANGED <<gd, ls, now>>

\* the catch of authenticateGoogleDrive
AuthFail(p, st) ==
    /\ gd' = [gd EXCEPT !.isAuthenticated = FALSE]
    /\ AuthThrow(p, st)
    /\ UNCHANGED <<ls, now>>

\* the access token is there: remember and persist the session
AuthSuccess(p, t) ==
    LET g == [gd EXCEPT !.accessToken = t + ExpiresIn, !.isAuthenticated = TRUE]
    IN  /\ gd' = g
        /\ ls' = [ls EXCEPT !.token = [present |-> TRUE,
                                        access_token |-> t + ExpiresIn,
                                        expires_at |-> t + ExpiresIn]]
        /\ now' = t
        /\ IF loc[p].op = "auth"
           THEN Finish(p, [Outcome("auth", NoId, "true", "200") EXCEPT !.auth = TRUE])
           ELSE EnterFolder(p, loc[p], g)

AuthenticateGoogleDrive_Start(p) ==
    /\ backend = "folder"
    /\ Begin(p)
    /\ \E t \in now..MaxTime : EnterAuth(p, [Idle EXCEPT !.op = "auth"], t)
    /\ UNCHANGED <<backend, pxVars, ghVars, gapi, dVars, histVars>>

\* initGoogleAPI: the client library shows up, or the timer rejects
AuthenticateGoogleDrive_InitGoogleAPI(p) ==
    /\ pc[p] = "gdAuthApi"
    /\ \/ /\ gapi' = [gapi EXCEPT !.state = IF @ = "none" THEN "client" ELSE @,
                                  !.script = TRUE]
          /\ Goto(p, "gdAuthInit", loc[p])
          /\ UNCHANGED <<gd, ls, now>>
       \/ /\ AuthFail(p, "timeout")
          /\ UNCHANGED gapi
    /\ UNCHANGED <<backend, pxVars, calls, ghVars, dVars, histVars>>

\* gapi.client.init, then the auth instance and its current user
AuthenticateGoogleDrive_ClientInit(p) ==
    /\ pc[p] = "gdAuthInit"
    /\ \E st \in EnvFail \cup {"200"}, t \in now..MaxTime :
          IF ~Ok(st)
          THEN AuthFail(p, st) /\ UNCHANGED gapi
          ELSE /\ gapi' = [gapi EXCEPT !.state = "inited"]
               /\ IF gapi.signedIn
                  THEN AuthSuccess(p, t)
                  ELSE Goto(p, "gdSignIn", loc[p]) /\ UNCHANGED <<gd, ls, now>>
    /\ UNCHANGED <<backend, pxVars, calls, ghVars, dVars, histVars>>

\* authInstance.signIn(), then user.getAuthResponse()
AuthenticateGoogleDrive_SignIn(p) ==
    /\ pc[p] = "gdSignIn"
    /\ \E st \in {"200", "rejected", "notoken"}, t \in now..MaxTime :
          /\ gapi' = [gapi EXCEPT !.signedIn = (@ \/ st # "rejected")]
          /\ IF Ok(st) THEN AuthSuccess(p, t) ELSE AuthFail(p, st)
    /\ UNCHANGED <<backend, pxVars, calls, ghVars, dVars, histVars>>

SignOutGoogleDrive_Start(p) ==
    /\ backend = "folder"
    /\ Begin(p)
    /\ IF gapi.state = "inited"
       THEN Goto(p, "gdSignOut", [Idle EXCEPT !.op = "signout"])
            /\ UNCHANGED <<gd, ls>>
       ELSE /\ gd' = [gd EXCEPT !.accessToken = NoTok, !.isAuthenticated = FALSE]
            /\ ls' = [ls EXCEPT !.token = NoLsToken]
            /\ Finish(p, Outcome("signout", NoId, "true", "200"))
    /\ UNCHANGED <<backend, pxVars, now, ghVars, gapi, dVars, histVars>>

SignOutGoogleDrive_SignOut(p) ==
    /\ pc[p] = "gdSignOut"
    /\ \E st \in EnvFail \cup {"200"} :
          IF Ok(st)
          THEN /\ gapi' = [gapi EXCEPT !.signedIn = FALSE]
               /\ gd' = [gd EXCEPT !.accessToken = NoTok, !.isAuthenticated = FALSE]
               /\ ls' = [ls EXCEPT !.token = NoLsToken]
               /\ Finish(p, Outcome("signout", NoId, "true", st))
          ELSE /\ Finish(p, Outcome("signout", NoId, "false", st))
               /\ UNCHANGED <<gd, ls, gapi>>
    /\ UNCHANGED <<backend, pxVars, now, calls, ghVars, dVars, histVars>>

\* the page is loaded again: memory is fresh, the auto-init runs
PageLoad ==
    /\ backend = "folder"
    /\ \A p \in Procs : pc[p] = "idle"
    /\ calls < MaxCalls
    /\ calls' = calls + 1
    /\ \E t \in ClockReads(ls.token.present) :
          LET s == InitGoogleDriveStorage(FreshGd, ls, t)
          IN  gd' = s.gd /\ ls' = s.ls /\ now' = t
    /\ gapi' = [gapi EXCEPT !.state = "none", !.script = FALSE]
    /\ ret' = NoRet
    /\ wire' = NoWire
    /\ UNCHANGED <<backend, pxVars, pc, loc, ghVars, dVars, histVars>>

-----------------------------------------------------------------------------
(* initGoogleAPI step by step: the promise, its polling interval, its timer *)
(* and the load callback of the client library                              *)

\* resolve() or reject() of the promise: only the first one settles it
Settle(l, how) == IF l.settled = "pending" THEN [l EXCEPT !.settled = how] ELSE l

\* the call: resolved at once when the client is there, otherwise the
\* interval and the timer are started
InitGoogleAPI_Call(p) ==
    /\ backend = "folder"
    /\ Begin(p)
    /\ IF gapi.state # "none"
       THEN Finish(p, Outcome("api", NoId, "resolved", "200"))
       ELSE Goto(p, "apiWait", [Idle EXCEPT !.op = "api", !.poll = TRUE,
                                            !.timer = TRUE])
    /\ UNCHANGED <<backend, now, ghVars, gdVars, dVars, pxVars, histVars>>

\* the script tag of the library has been executed: window.gapi exists
ScriptLoads ==
    /\ backend = "folder"
    /\ ~gapi.script
    /\ gapi' = [gapi EXCEPT !.script = TRUE]
    /\ ret' = NoRet
    /\ wire' = NoWire
    /\ UNCHANGED <<backend, now, calls, pc, loc, ghVars, gd, ls, dVars, pxVars, histVars>>

\* a tick of the interval that finds window.gapi: the interval is cleared
\* and the client is asked for
InitGoogleAPI_Tick(p) ==
    /\ pc[p] = "apiWait"
    /\ loc[p].poll
    /\ gapi.script
    /\ Goto(p, "apiWait", [loc[p] EXCEPT !.poll = FALSE, !.loading = TRUE])
    /\ UNCHANGED <<backend, now, calls, ghVars, gdVars, dVars, pxVars, histVars>>

\* the callback of gapi.load: resolve()
InitGoogleAPI_Loaded(p) ==
    /\ pc[p] = "apiWait"
    /\ loc[p].loading
    /\ gapi' = [gapi EXCEPT !.state = IF @ = "none" THEN "client" ELSE @]
    /\ Goto(p, "apiWait", [Settle(loc[p], "resolved") EXCEPT !.loading = FALSE])
    /\ UNCHANGED <<backend, now, calls, ghVars, gd, ls, dVars, pxVars, histVars>>

\* variant: the timer only clears the interval
InitGoogleAPI_TimeoutSilent(p) ==
    /\ pc[p] = "apiWait"
    /\ loc[p].timer
    /\ Goto(p, "apiWait", [loc[p] EXCEPT !.timer = FALSE, !.poll = FALSE])
    /\ UNCHANGED <<backend, now, calls, ghVars, gdVars, dVars, pxVars, histVars>>

\* the timer: the interval is cleared, reject()
InitGoogleAPI_Timeout(p) ==
    /\ pc[p] = "apiWait"
    /\ loc[p].timer
    /\ Goto(p, "apiWait", [Settle(loc[p], "rejected") EXCEPT !.timer = FALSE,
                                                              !.poll = FALSE])
    /\ UNCHANGED <<backend, now, calls, ghVars, gdVars, dVars, pxVars, histVars>>

\* nothing of the call is left to run: its closure is dropped
InitGoogleAPI_Done(p) ==
    /\ pc[p] = "apiWait"
    /\ ~loc[p].timer /\ ~loc[p].poll /\ ~loc[p].loading
    /\ Finish(p, Outcome("api", NoId, loc[p].settled, "200"))
    /\ UNCHANGED <<backend, now, calls, ghVars, gdVars, dVars, pxVars, histVars>>

-----------------------------------------------------------------------------
(* getSopsFolder *)

\* the folder id is known: the calling operation goes on
FolderResolved(p, l, f) ==
    IF l.op = "save"
    THEN \E t \in ClockReads(l.doc.meta /\ l.doc.sopId = NoId) :
            /\ now' = t
            /\ IF ~l.doc.meta
               THEN Finish(p, [Outcome("save", NoId, "error", "TypeError") EXCEPT
                                  !.auth = l.auth])
               ELSE Goto(p, "gdSaveList",
                         [l EXCEPT !.folder = f,
                                   !.id = IF l.doc.sopId # NoId THEN l.doc.sopId
                                          ELSE GenId(t)])
    ELSE /\ Goto(p, IF l.op = "load" THEN "gdLoadList" ELSE "gdDelList",
                 [l EXCEPT !.folder = f])
         /\ UNCHANGED now

GetSopsFolder_Verify(p) ==
    /\ pc[p] = "gdFolderGet"
    /\ \E st \in GapiOutcomes(DFolderStatus(loc[p].folder)) :
          IF Ok(st)
          THEN FolderResolved(p, loc[p], loc[p].folder)
          ELSE Goto(p, "gdFolderCreate", loc[p]) /\ UNCHANGED now
    /\ UNCHANGED <<backend, calls, ghVars, gdVars, dVars, pxVars, histVars>>

GetSopsFolder_Create(p) ==
    /\ pc[p] = "gdFolderCreate"
    /\ \E st \in GapiOutcomes("200") :
          IF Ok(st)
          THEN /\ dFolders' = dFolders \cup {dNextId}
               /\ dNextId' = dNextId + 1
               /\ gd' = [gd EXCEPT !.folderId = dNextId]
               /\ ls' = [ls EXCEPT !.config = [@ EXCEPT !.present = TRUE,
                                                       !.folderId = dNextId]]
               /\ FolderResolved(p, loc[p], dNextId)
          ELSE /\ GdThrow(p, st, FALSE)
               /\ UNCHANGED <<now, gd, ls, dFolders, dNextId>>
    /\ UNCHANGED <<backend, pxVars, calls, ghVars, gapi, dFiles, histVars>>

-----------------------------------------------------------------------------
(* saveSopToGoogleDrive *)

SaveSopToGoogleDrive_Start(p) ==
    /\ backend = "folder"
    /\ BeginSave(p)
    /\ \E sop \in FolderDocs, t \in ClockReads(gd.isEnabled /\ ~gd.isAuthenticated) :
          IF ~gd.isEnabled
          THEN /\ Finish(p, Outcome("save", sop.sopId, "false", "disabled"))
               /\ UNCHANGED <<gd, ls, now>>
          ELSE EnterOp(p, [Idle EXCEPT !.op = "save", !.doc = sop], t)
    /\ UNCHANGED <<backend, pxVars, ghVars, gapi, dVars, histVars>>

\* the lookup by name; a failed lookup counts as "no such file"
SaveSopToGoogleDrive_List(p) ==
    /\ pc[p] = "gdSaveList"
    /\ \E st \in GapiOutcomes("200") :
          IF Ok(st) /\ Matching(loc[p].id, loc[p].folder) # {}
          THEN \E x \in Matching(loc[p].id, loc[p].folder) :
                  Goto(p, "gdSaveMeta", [loc[p] EXCEPT !.file = x.id,
                                                       !.looked = TRUE])
          ELSE Goto(p, "gdSaveCreate", [loc[p] EXCEPT !.looked = Ok(st)])
    /\ UNCHANGED <<backend, now, calls, ghVars, gdVars, dVars, pxVars, histVars>>

\* files.update of the name, then the content upload is sent
SaveSopToGoogleDrive_UpdateMeta(p) ==
    /\ pc[p] = "gdSaveMeta"
    /\ \E st \in GapiOutcomes(DFileStatus(loc[p].file)) :
          IF Ok(st)
          THEN GotoFetch(p, "gdSaveUpload", loc[p])
          ELSE GdThrow(p, st, TRUE)
    /\ UNCHANGED <<backend, now, calls, ghVars, gdVars, dVars, pxVars, histVars>>

\* files.create of an empty file, then the content upload is sent
SaveSopToGoogleDrive_Create(p) ==
    /\ pc[p] = "gdSaveCreate"
    /\ \E st \in GapiOutcomes("200") :
          IF Ok(st)
          THEN /\ DCreate(loc[p].id, loc[p].folder, EmptyText)
               /\ gone' = Written(loc[p].id)
               /\ GotoFetch(p, "gdSaveUpload", [loc[p] EXCEPT !.file = dNextId,
                                                               !.fresh = TRUE])
          ELSE /\ GdThrow(p, st, TRUE)
               /\ UNCHANGED <<dVars, gone>>
    /\ UNCHANGED <<backend, pxVars, now, calls, ghVars, gdVars, nwrites, used, lastPut>>

\* variant: the answer to the upload is not looked at
GdUploadResultUnchecked(st) == "true"

\* what saveSopToGoogleDrive makes of the answer to the upload
GdUploadResult(st) == IF Ok(st) THEN "true" ELSE "error"

SaveSopToGoogleDrive_Upload(p) ==
    /\ pc[p] = "gdSaveUpload"
    /\ \E t \in now..MaxTime :
       \E st \in FetchOutcomes(loc[p].bearer, t, DFileStatus(loc[p].file)) :
          /\ now' = t
          /\ IF Ok(st)
             THEN /\ DUpload(loc[p].file, Utf8(JSONStringify(loc[p].doc)))
                  /\ nwrites' = nwrites + 1
                  /\ lastPut' = [name |-> loc[p].id, doc |-> loc[p].doc]
                  /\ gone' = Written(loc[p].id)
                  /\ UNCHANGED used
             ELSE UNCHANGED <<dVars, histVars>>
          /\ Finish(p, [Outcome("save", loc[p].id, GdUploadResult(st), st) EXCEPT
                           !.doc = loc[p].doc, !.wfail = ~Ok(st),
                           !.auth = loc[p].auth, !.file = loc[p].file,
                           !.repaired = (/\ Ok(st)
                                         /\ ~loc[p].fresh
                                         /\ DText(loc[p].file) = EmptyText)])
    /\ UNCHANGED <<backend, pxVars, calls, ghVars, gdVars>>

-----------------------------------------------------------------------------
(* loadAllSopsFromGoogleDrive *)

LoadAllSopsFromGoogleDrive_Start(p) ==
    /\ backend = "folder"
    /\ Begin(p)
    /\ \E t \in ClockReads(gd.isEnabled /\ ~gd.isAuthenticated) :
          IF ~gd.isEnabled
          THEN /\ Finish(p, Outcome("load", NoId, "null", "disabled"))
               /\ UNCHANGED <<gd, ls, now>>
          ELSE EnterOp(p, [Idle EXCEPT !.op = "load"], t)
    /\ UNCHANGED <<backend, pxVars, ghVars, gapi, dVars, histVars>>

GdLoadDone(p, l) ==
    Finish(p, [Outcome("load", NoId, "map", "200") EXCEPT
                  !.sops = l.sops, !.listed = l.listed,
                  !.visited = l.listed \ l.todo, !.good = l.good,
                  !.dup = l.dup, !.auth = l.auth])

LoadAllSopsFromGoogleDrive_List(p) ==
    /\ pc[p] = "gdLoadList"
    /\ \E st \in GapiOutcomes("200") :
          LET ids == {x.id : x \in InFolder(loc[p].folder)}
              l == [loc[p] EXCEPT !.todo = ids, !.listed = ids]
          IN  IF ~Ok(st) THEN GdThrow(p, st, FALSE)
              ELSE IF ids = {} THEN GdLoadDone(p, l)
              ELSE GotoFetch(p, "gdLoadFile", l)
    /\ UNCHANGED <<backend, now, calls, ghVars, gdVars, dVars, pxVars, histVars>>

\* one entry of the loop
LoadAllSopsFromGoogleDrive_File(p) ==
    /\ pc[p] = "gdLoadFile"
    /\ \E f \in {NextEntry(loc[p].todo)}, t \in now..MaxTime :
       \E st \in FetchOutcomes(loc[p].bearer, t, DFileStatus(f)) :
          LET name == IF DHas(f) THEN DFile(f).name ELSE NoId
              l == AfterEntry(loc[p], f, name, st, DText(f))
          IN  /\ now' = t
              /\ IF l.todo = {} THEN GdLoadDone(p, l)
                 ELSE GotoFetch(p, "gdLoadFile", l)
    /\ UNCHANGED <<backend, calls, ghVars, gdVars, dVars, pxVars, histVars>>

-----------------------------------------------------------------------------
(* deleteSopFromGoogleDrive *)

DeleteSopFromGoogleDrive_Start(p) ==
    /\ backend = "folder"
    /\ Begin(p)
    /\ \E n \in Targets :
          IF ~gd.isEnabled \/ ~gd.isAuthenticated
          THEN Finish(p, Outcome("delete", n, "false",
                                 IF gd.isEnabled THEN "unauthenticated" ELSE "disabled"))
          ELSE EnterFolder(p, [Idle EXCEPT !.op = "delete", !.id = n,
                                           !.epoch = Epoch(n)], gd)
    /\ UNCHANGED <<backend, now, ghVars, gdVars, dVars, pxVars, histVars>>

\* what deleteSopFromGoogleDrive returns when the lookup finds no file
GdDeleteAbsent == "false"

DeleteSopFromGoogleDrive_List(p) ==
    /\ pc[p] = "gdDelList"
    /\ \E st \in GapiOutcomes("200") :
          IF ~Ok(st)
          THEN GdThrow(p, st, FALSE) /\ UNCHANGED gone
          ELSE IF Matching(loc[p].id, loc[p].folder) = {}
          THEN /\ Finish(p, [Outcome("delete", loc[p].id, GdDeleteAbsent, "absent")
                                EXCEPT !.clean = Clean(loc[p])])
               /\ gone' = Gone(loc[p].id, GdDeleteAbsent)
          ELSE /\ \E x \in Matching(loc[p].id, loc[p].folder) :
                     Goto(p, "gdDelDelete", [loc[p] EXCEPT !.file = x.id])
               /\ UNCHANGED gone
    /\ UNCHANGED <<backend, now, calls, ghVars, gdVars, dVars, pxVars, nwrites, used, lastPut>>

DeleteSopFromGoogleDrive_Delete(p) ==
    /\ pc[p] = "gdDelDelete"
    /\ \E st \in GapiOutcomes(DFileStatus(loc[p].file)) :
          /\ IF Ok(st)
             THEN /\ DDelete(loc[p].file)
                  /\ lastPut' = Deleted(loc[p].id)
                  /\ gone' = Gone(loc[p].id, "true")
             ELSE UNCHANGED <<dVars, lastPut, gone>>
          /\ Finish(p, [Outcome("delete", loc[p].id,
                                IF Ok(st) THEN "true" ELSE GdCatch("delete"), st)
                           EXCEPT !.clean = Clean(loc[p]), !.sent = TRUE,
                                  !.wfail = (~Ok(st) /\ st # "404")])
    /\ UNCHANGED <<backend, pxVars, now, calls, ghVars, gdVars, nwrites, used>>

-----------------------------------------------------------------------------
(* The thin-proxy adapter (shared-sop-api.js) in front of the proxy service *)
(* (cloud-run-backend.js).  A caller is one adapter call together with the *)
(* request handler that serves it.                                         *)

\* documents handed to the proxy
ProxyDocs ==
    { Doc(TRUE, "sop-a", <<34, 233>>, NoTime),
      Doc(TRUE, "sop-a", <<8212>>, NoTime),
      Doc(TRUE, NoId, <<65>>, NoTime),
      NoMetaDoc }

\* what the adapter call makes of the HTTP status ("net": fetch rejected)
PxLoadResult(st) == IF Ok(st) THEN "map" ELSE "null"
PxWriteResult(st) == IF Ok(st) THEN "true" ELSE "error"
PxGetResult(st) == IF Ok(st) THEN "doc" ELSE IF st = "404" THEN "null" ELSE "error"

PxResult(op, st) ==
    CASE op = "load" -> PxLoadResult(st)
      [] op \in {"save", "delete"} -> PxWriteResult(st)
      [] op = "get" -> PxGetResult(st)
      [] op = "other" -> "response"

\* the outcome of a request: the service answered with status st (or not at
\* all: "none"), the client saw status seen
PxOutcome(r, op, n, st, seen) ==
    [r EXCEPT !.op = op, !.id = n,
              !.result = PxResult(op, seen),
              !.status = seen,
              !.http = st,
              !.reqs = 1,
              !.wfail = (op \in {"save", "delete"} /\ ~Ok(seen))]

\* sendJson(res, st, ...), then the adapter call returns; the response may
\* get lost on the way back
PxRespond(p, st, r) ==
    \E seen \in {st, "net"} :
        Finish(p, PxOutcome(r, loc[p].op, loc[p].id, st, seen))

\* variant: the catch of the handler answers 200
PxThrowAnswersOk(p) == PxRespond(p, "200", [NoRet EXCEPT !.threw = TRUE])

\* the handler throws: the catch answers 500
PxThrow(p) == PxRespond(p, "500", [NoRet EXCEPT !.threw = TRUE])

\* the request leaves the adapter: it gets lost, or the handler runs up to
\* its first await
PxSend(p, l, label) ==
    \/ Finish(p, PxOutcome(NoRet, l.op, l.id, "none", "net"))
    \/ IF srv.folderId = NoFolder \/ ~srv.creds
       THEN \E seen \in {"503", "net"} :
               Finish(p, PxOutcome(NoRet, l.op, l.id, "503", seen))
       ELSE Goto(p, label, [l EXCEPT !.folder = srv.folderId])

\* `for await (const chunk of req) body += chunk`: a chunk boundary inside a
\* multi-byte character turns it into U+FFFD
ReadBody(x, split) ==
    IF split
    THEN [x EXCEPT !.lit = [k \in 1..Len(x.lit) |->
                               IF x.lit[k] > 127 THEN 65533 ELSE x.lit[k]]]
    ELSE Utf8(x)

LoadAllSopsFromSharedAPI(p) ==
    /\ backend = "proxy"
    /\ Begin(p)
    /\ IF ~baseUrl
       THEN Finish(p, Outcome("load", NoId, "null", "nobase"))
       ELSE PxSend(p, [Idle EXCEPT !.op = "load"], "pxList")
    /\ UNCHANGED <<backend, now, ghVars, gdVars, dVars, pxVars, histVars>>

\* POST /sops: the body is read and parsed, saveSop names the file
SaveSopToSharedAPI(p) ==
    /\ backend = "proxy"
    /\ BeginSave(p)
    /\ \E sop \in ProxyDocs, split \in BOOLEAN :
       \E t \in ClockReads(baseUrl /\ sop.sopId = NoId) :
          LET doc == JSONParse(ReadBody(JSONStringify(sop), split))
              sopId == IF doc.meta /\ doc.sopId # NoId THEN doc.sopId ELSE GenId(t)
          IN  /\ now' = t
              /\ IF ~baseUrl
                 THEN Finish(p, Outcome("save", sop.sopId, "false", "nobase"))
                 ELSE PxSend(p, [Idle EXCEPT !.op = "save", !.id = sopId, !.doc = doc],
                             "pxSaveList")
    /\ UNCHANGED <<backend, ghVars, gdVars, dVars, pxVars, histVars>>

DeleteSopFromSharedAPI(p) ==
    /\ backend = "proxy"
    /\ Begin(p)
    /\ \E n \in Targets :
          IF ~baseUrl
          THEN Finish(p, Outcome("delete", n, "false", "nobase"))
          ELSE PxSend(p, [Idle EXCEPT !.op = "delete", !.id = n, !.epoch = Epoch(n)],
                      "pxDelList")
    /\ UNCHANGED <<backend, now, ghVars, gdVars, dVars, pxVars, histVars>>

\* the route the handler takes for a method and the parts of the path
Route(method, first, parts) ==
    IF first = "sops" /\ parts = 1 /\ method = "GET" THEN "list"
    ELSE IF first = "sops" /\ parts = 1 /\ method = "POST" THEN "save"
    ELSE IF first = "sops" /\ parts = 2 /\ method = "GET" THEN "get"
    ELSE IF first = "sops" /\ parts = 2 /\ method = "DELETE" THEN "delete"
    ELSE "none"

\* requests outside the four routes
Unrouted ==
    {r \in [method : {"GET", "POST", "DELETE", "PUT", "OPTIONS"},
            first : {"sops", "other"},
            parts : 1..3] : Route(r.method, r.first, r.parts) = "none"}

\* what the handler answers to a request outside the four routes
UnroutedStatus(r) ==
    IF r.method = "OPTIONS" THEN "204"
    ELSE IF srv.folderId = NoFolder \/ ~srv.creds THEN "503"
    ELSE "404"

\* `new URL(req.url, 'http://localhost')` throws on a request target that is
\* no URL (such as `//`); it runs after cors() and outside the try
UrlThrows(method, wellFormed) == method # "OPTIONS" /\ ~wellFormed

\* any other request, sent by any HTTP client; the handler answers it without
\* touching the store, so it is taken while no other request is in flight
HttpOther(p) ==
    /\ backend = "proxy"
    /\ Begin(p)
    /\ \A q \in Procs : pc[q] = "idle"
    /\ \E r \in Unrouted, wellFormed \in BOOLEAN :
          \/ Finish(p, PxOutcome(NoRet, "other", NoId, "none", "net"))
          \/ IF UrlThrows(r.method, wellFormed)
             THEN Finish(p, PxOutcome([NoRet EXCEPT !.threw = TRUE],
                                      "other", NoId, "none", "net"))
             ELSE \E seen \in {UnroutedStatus(r), "net"} :
                     Finish(p, PxOutcome(NoRet, "other", NoId, UnroutedStatus(r), seen))
    /\ UNCHANGED <<backend, now, ghVars, gdVars, dVars, pxVars, histVars>>

\* GET /sops/:id, sent by any HTTP client; the document last put under the
\* id is remembered for the time of the request
HttpGetSop(p) ==
    /\ backend = "proxy"
    /\ Begin(p)
    /\ \E n \in Targets :
          PxSend(p, [Idle EXCEPT !.op = "get", !.id = n, !.doc = LastPut(n)],
                 "pxGetList")
    /\ UNCHANGED <<backend, now, ghVars, gdVars, dVars, pxVars, histVars>>

-----------------------------------------------------------------------------
(* listSops, getSop, saveSop, deleteSop of the proxy service *)

\* the document put before the get of p began, if nothing was put or
\* deleted under the id since
Expect(p) == IF LastPut(loc[p].id) = loc[p].doc THEN loc[p].doc ELSE NoDoc

\* answers of the Drive API to the service account
SrvOutcomes(server) == EnvFail \cup {server}

PxListDone(p, l) ==
    PxRespond(p, "200", [NoRet EXCEPT !.sops = l.sops, !.listed = l.listed,
                                      !.visited = l.listed \ l.todo,
                                      !.good = l.good, !.dup = l.dup])

ListSops_List(p) ==
    /\ pc[p] = "pxList"
    /\ \E st \in SrvOutcomes("200") :
          LET ids == {x.id : x \in InFolder(loc[p].folder)}
              l == [loc[p] EXCEPT !.todo = ids, !.listed = ids]
          IN  IF ~Ok(st) THEN PxThrow(p)
              ELSE IF ids = {} THEN PxListDone(p, l)
              ELSE Goto(p, "pxListFile", l)
    /\ UNCHANGED <<backend, now, calls, ghVars, gdVars, dVars, pxVars, histVars>>

ListSops_File(p) ==
    /\ pc[p] = "pxListFile"
    /\ \E f \in {NextEntry(loc[p].todo)} :
       \E st \in SrvOutcomes(DFileStatus(f)) :
          LET name == IF DHas(f) THEN DFile(f).name ELSE NoId
              l == AfterEntry(loc[p], f, name, st, DText(f))
          IN  IF l.todo = {} THEN PxListDone(p, l) ELSE Goto(p, "pxListFile", l)
    /\ UNCHANGED <<backend, now, calls, ghVars, gdVars, dVars, pxVars, histVars>>

GetSop_List(p) ==
    /\ pc[p] = "pxGetList"
    /\ \E st \in SrvOutcomes("200") :
          IF ~Ok(st) THEN PxThrow(p)
          ELSE IF Matching(loc[p].id, loc[p].folder) = {}
          THEN PxRespond(p, "404", [NoRet EXCEPT !.expect = Expect(p)])
          ELSE \E x \in Matching(loc[p].id, loc[p].folder) :
                  Goto(p, "pxGetMedia", [loc[p] EXCEPT !.file = x.id])
    /\ UNCHANGED <<backend, now, calls, ghVars, gdVars, dVars, pxVars, histVars>>

GetSop_Media(p) ==
    /\ pc[p] = "pxGetMedia"
    /\ \E st \in SrvOutcomes(DFileStatus(loc[p].file)) :
          IF ~Ok(st) \/ ~JSONParseOk(DText(loc[p].file))
          THEN PxThrow(p)
          ELSE PxRespond(p, "200", [NoRet EXCEPT
                                       !.doc = JSONParse(DText(loc[p].file)),
                                       !.expect = Expect(p)])
    /\ UNCHANGED <<backend, now, calls, ghVars, gdVars, dVars, pxVars, histVars>>

SaveSop_List(p) ==
    /\ pc[p] = "pxSaveList"
    /\ \E st \in SrvOutcomes("200") :
          IF ~Ok(st) THEN PxThrow(p)
          ELSE IF Matching(loc[p].id, loc[p].folder) = {}
          THEN Goto(p, "pxSaveCreate", loc[p])
          ELSE \E x \in Matching(loc[p].id, loc[p].folder) :
                  Goto(p, "pxSaveUpdate", [loc[p] EXCEPT !.file = x.id])
    /\ UNCHANGED <<backend, now, calls, ghVars, gdVars, dVars, pxVars, histVars>>

\* saveSop has written document d under name n
PxStored(n, d) ==
    /\ nwrites' = nwrites + 1
    /\ lastPut' = [name |-> n, doc |-> d]
    /\ gone' = Written(n)
    /\ UNCHANGED used

SaveSop_Update(p) ==
    /\ pc[p] = "pxSaveUpdate"
    /\ \E st \in SrvOutcomes(DFileStatus(loc[p].file)) :
          IF Ok(st)
          THEN /\ DUpload(loc[p].file, Utf8(JSONStringify(loc[p].doc)))
               /\ PxStored(loc[p].id, loc[p].doc)
               /\ PxRespond(p, "200", [NoRet EXCEPT !.doc = loc[p].doc])
          ELSE /\ PxThrow(p)
               /\ UNCHANGED <<dVars, histVars>>
    /\ UNCHANGED <<backend, now, calls, ghVars, gdVars, pxVars>>

SaveSop_Create(p) ==
    /\ pc[p] = "pxSaveCreate"
    /\ \E st \in SrvOutcomes("200") :
          IF Ok(st)
          THEN /\ DCreate(loc[p].id, loc[p].folder, Utf8(JSONStringify(loc[p].doc)))
               /\ PxStored(loc[p].id, loc[p].doc)
               /\ PxRespond(p, "200", [NoRet EXCEPT !.doc = loc[p].doc])
          ELSE /\ PxThrow(p)
               /\ UNCHANGED <<dVars, histVars>>
    /\ UNCHANGED <<backend, now, calls, ghVars, gdVars, pxVars>>

\* deleteSop found no file: `return true` without a delete request
DeleteSop_List(p) ==
    /\ pc[p] = "pxDelList"
    /\ \E st \in SrvOutcomes("200") :
          IF ~Ok(st) THEN PxThrow(p) /\ UNCHANGED gone
          ELSE IF Matching(loc[p].id, loc[p].folder) = {}
          THEN /\ PxRespond(p, "200", [NoRet EXCEPT !.clean = Clean(loc[p])])
               /\ gone' = Gone(loc[p].id, "true")
          ELSE /\ \E x \in Matching(loc[p].id, loc[p].folder) :
                     Goto(p, "pxDelDelete", [loc[p] EXCEPT !.file = x.id])
               /\ UNCHANGED gone
    /\ UNCHANGED <<backend, now, calls, ghVars, gdVars, dVars, pxVars, nwrites, used, lastPut>>

DeleteSop_Delete(p) ==
    /\ pc[p] = "pxDelDelete"
    /\ \E st \in SrvOutcomes(DFileStatus(loc[p].file)) :
          IF Ok(st)
          THEN /\ DDelete(loc[p].file)
               /\ lastPut' = Deleted(loc[p].id)
               /\ gone' = Gone(loc[p].id, "true")
               /\ PxRespond(p, "200", [NoRet EXCEPT !.clean = Clean(loc[p]),
                                                    !.sent = TRUE])
          ELSE /\ PxRespond(p, "500", [NoRet EXCEPT !.clean = Clean(loc[p]),
                                                    !.sent = TRUE,
                                                    !.threw = TRUE])
               /\ UNCHANGED <<dVars, lastPut, gone>>
    /\ UNCHANGED <<backend, now, calls, ghVars, gdVars, pxVars, nwrites, used>>
-----------------------------------------------------------------------------

GhFile(sha, text) == [sha |-> sha, content |-> Btoa(text)]

EmptyRepo == [n \in AllNames |-> NoFile]

\* two valid documents and one unparseable file
SeedRepo ==
    [EmptyRepo EXCEPT
        !["sop-a"] = GhFile(1, JSONStringify(Doc(TRUE, "sop-a", <<65>>, 0))),
        !["sop-404"] = GhFile(2, JSONStringify(Doc(TRUE, "sop-404", <<34, 233>>, 0))),
        ![JunkName] = GhFile(3, CorruptText)]

InitFileHost ==
    /\ backend = "filehost"
    /\ \/ ghEnabled = TRUE /\ repoExists = TRUE /\ ghFiles \in {EmptyRepo, SeedRepo}
       \/ ghEnabled = TRUE /\ repoExists = FALSE /\ ghFiles = EmptyRepo
       \/ ghEnabled = FALSE /\ repoExists = TRUE /\ ghFiles = SeedRepo
    /\ ghNextSha = 4
    /\ gd = FreshGd
    /\ ls = [config |-> NoConfig, token |-> NoLsToken]
    /\ gapi = [state |-> "none", signedIn |-> FALSE, script |-> FALSE]
    /\ dFolders = {}
    /\ dFiles = {}
    /\ dNextId = 1
    /\ srv = [folderId |-> NoFolder, creds |-> FALSE]
    /\ baseUrl = FALSE

NoGitHub ==
    /\ ghEnabled = FALSE
    /\ repoExists = FALSE
    /\ ghFiles = EmptyRepo
    /\ ghNextSha = 1

DriveFile(f, n, text) == [id |-> f, name |-> n, parent |-> 1, text |-> text]

\* folder 1 with two valid documents and one unparseable file
SeedFolder ==
    { DriveFile(2, "sop-a", JSONStringify(Doc(TRUE, "sop-a", <<65>>, 0))),
      DriveFile(3, "sop-404", JSONStringify(Doc(TRUE, "sop-404", <<34, 233>>, 0))),
      DriveFile(4, JunkName, CorruptText) }

Config(f) == [present |-> TRUE, ok |-> TRUE, folderId |-> f]

\* a session persisted by an earlier page, valid until 1
SavedToken == [present |-> TRUE, access_token |-> 1, expires_at |-> 1]

\* the page has loaded and initGoogleDriveStorage has run
InitFolder ==
    /\ backend = "folder"
    /\ NoGitHub
    /\ \/ /\ ls = [config |-> NoConfig, token |-> NoLsToken]
          /\ dFolders = {} /\ dFiles = {} /\ dNextId = 1
       \/ /\ ls = [config |-> Config(NoFolder), token |-> NoLsToken]
          /\ dFolders = {} /\ dFiles = {} /\ dNextId = 1
       \/ /\ ls \in {[config |-> Config(1), token |-> NoLsToken],
                     [config |-> Config(1), token |-> SavedToken]}
          /\ dFolders = {1} /\ dFiles = SeedFolder /\ dNextId = 5
    /\ gd = InitGoogleDriveStorage(FreshGd, ls, 0).gd
    /\ gapi \in {[state |-> "none", signedIn |-> FALSE, script |-> FALSE],
                 [state |-> "none", signedIn |-> TRUE, script |-> FALSE]}
    /\ srv = [folderId |-> NoFolder, creds |-> FALSE]
    /\ baseUrl = FALSE

\* the service is deployed; its folder exists when FOLDER_ID names it
InitProxy ==
    /\ backend = "proxy"
    /\ NoGitHub
    /\ gd = FreshGd
    /\ ls = [config |-> NoConfig, token |-> NoLsToken]
    /\ gapi = [state |-> "none", signedIn |-> FALSE, script |-> FALSE]
    /\ dFolders = {1}
    /\ dNextId = 5
    /\ \/ /\ baseUrl = TRUE
          /\ srv = [folderId |-> 1, creds |-> TRUE]
          /\ dFiles \in {{}, SeedFolder}
       \/ /\ baseUrl = TRUE
          /\ srv \in {[folderId |-> NoFolder, creds |-> TRUE],
                      [folderId |-> 1, creds |-> FALSE]}
          /\ dFiles = SeedFolder
       \/ /\ baseUrl = FALSE
          /\ srv = [folderId |-> 1, creds |-> TRUE]
          /\ dFiles = SeedFolder

InitCommon ==
    /\ now = 0
    /\ calls = 0
    /\ pc = [p \in Procs |-> "idle"]
    /\ loc = [p \in Procs |-> Idle]
    /\ ret = NoRet
    /\ wire = NoWire
    /\ nwrites = 0
    /\ used = {}
    /\ lastPut = NoPut
    /\ gone = NoneGone

Init == InitCommon /\ (InitFileHost \/ InitFolder \/ InitProxy)

NextFileHost ==
    \E p \in Procs :
        \/ SaveSopToGitHubRepo_Start(p)
        \/ SaveSopToGitHubRepo_RepoCheck(p)
        \/ SaveFileToRepo_GetSha(p)
        \/ SaveFileToRepo_Put(p)
        \/ GetFileFromRepo(p)
        \/ DeleteSopFromGitHubRepo_Start(p)
        \/ DeleteSopFromGitHubRepo_GetSha(p)
        \/ DeleteSopFromGitHubRepo_Delete(p)
        \/ LoadAllSopsFromGitHubRepo_Start(p)
        \/ LoadAllSopsFromGitHubRepo_RepoCheck(p)
        \/ LoadAllSopsFromGitHubRepo_ListDir(p)
        \/ LoadAllSopsFromGitHubRepo_File(p)

NextFolder ==
    \/ PageLoad
    \/ \E p \in FolderProcs :
        \/ AuthenticateGoogleDrive_Start(p)
        \/ AuthenticateGoogleDrive_InitGoogleAPI(p)
        \/ AuthenticateGoogleDrive_ClientInit(p)
        \/ AuthenticateGoogleDrive_SignIn(p)
        \/ SignOutGoogleDrive_Start(p)
        \/ SignOutGoogleDrive_SignOut(p)
        \/ GetSopsFolder_Verify(p)
        \/ GetSopsFolder_Create(p)
        \/ SaveSopToGoogleDrive_Start(p)
        \/ SaveSopToGoogleDrive_List(p)
        \/ SaveSopToGoogleDrive_UpdateMeta(p)
        \/ SaveSopToGoogleDrive_Create(p)
        \/ SaveSopToGoogleDrive_Upload(p)
        \/ LoadAllSopsFromGoogleDrive_Start(p)
        \/ LoadAllSopsFromGoogleDrive_List(p)
        \/ LoadAllSopsFromGoogleDrive_File(p)
        \/ DeleteSopFromGoogleDrive_Start(p)
        \/ DeleteSopFromGoogleDrive_List(p)
        \/ DeleteSopFromGoogleDrive_Delete(p)

NextProxy ==
    \E p \in Procs :
        \/ LoadAllSopsFromSharedAPI(p)
        \/ SaveSopToSharedAPI(p)
        \/ DeleteSopFromSharedAPI(p)
        \/ HttpGetSop(p)
        \/ HttpOther(p)
        \/ ListSops_List(p)
        \/ ListSops_File(p)
        \/ GetSop_List(p)
        \/ GetSop_Media(p)
        \/ SaveSop_List(p)
        \/ SaveSop_Update(p)
        \/ SaveSop_Create(p)
        \/ DeleteSop_List(p)
        \/ DeleteSop_Delete(p)

Next == NextFileHost \/ NextFolder \/ NextProxy

\* initGoogleAPI alone, with the page in each state of loading the library
InitApi ==
    /\ InitCommon
    /\ backend = "folder"
    /\ NoGitHub
    /\ ls = [config |-> Config(1), token |-> NoLsToken]
    /\ dFolders = {1} /\ dFiles = SeedFolder /\ dNextId = 5
    /\ gd = InitGoogleDriveStorage(FreshGd, ls, 0).gd
    /\ gapi \in {[state |-> "none", signedIn |-> FALSE, script |-> FALSE],
                 [state |-> "none", signedIn |-> FALSE, script |-> TRUE],
                 [state |-> "client", signedIn |-> FALSE, script |-> TRUE]}
    /\ srv = [folderId |-> NoFolder, creds |-> FALSE]
    /\ baseUrl = FALSE

NextApi ==
    \/ ScriptLoads
    \/ \E p \in Procs :
        \/ InitGoogleAPI_Call(p)
        \/ InitGoogleAPI_Tick(p)
        \/ InitGoogleAPI_Loaded(p)
        \/ InitGoogleAPI_Timeout(p)
        \/ InitGoogleAPI_Done(p)

\* setTimeout fires its callback; nothing makes the library load
SpecApi ==
    /\ InitApi
    /\ [][NextApi]_vars
    /\ \A p \in Procs : WF_vars(InitGoogleAPI_Timeout(p))

InitG == InitCommon /\ InitFileHost
SpecG == InitG /\ [][NextFileHost]_vars

InitP == InitCommon /\ InitProxy
SpecP == InitP /\ [][NextProxy]_vars

\* one call at a time: the second caller never starts
NextSeq == Next /\ pc'["p2"] = "idle"
SpecSeq == Init /\ [][NextSeq]_vars

InitF == InitCommon /\ InitFolder
SpecF == InitF /\ [][NextFolder]_vars

\* the folder store starting without a folder id in the configuration
InitU == InitF /\ ls.config.folderId = NoFolder
SpecU == InitU /\ [][NextFolder]_vars

Spec == Init /\ [][Next]_vars

TypeOK ==
    /\ now \in 0..MaxTime
    /\ calls \in 0..MaxCalls

-----------------------------------------------------------------------------
(* Properties *)

\* statuses with which the file host itself answers a PUT
PutAnswers == {"200", "201", "409", "422"}

\* the call that just ended is a save whose PUT the file host answered
PutAnswered == ret.op = "save" /\ backend = "filehost" /\ ret.status \in PutAnswers

\* C1: on the file host, a save whose sha comes from a read that is stale by
\* the time its PUT arrives fails and leaves the newer content in place; a
\* save whose sha is the current one succeeds.
C1_StaleSaveConflicts ==
    PutAnswered =>
        IF ret.sha = ret.cur
        THEN ret.result = "true" /\ ret.changed
        ELSE ret.result = "error" /\ ~ret.changed

\* two clients read the same existing file, one saved, the other got 409
C1_Witness ==
    /\ PutAnswered
    /\ ret.status = "409"
    /\ ret.sha # NoSha
    /\ ret.cur \notin {NoSha, ret.sha}
    /\ lastPut.name = ret.id
    /\ ret.result = "error"

\* C2: on the file host, no two PUTs succeed on top of the same sha of a
\* path, and a PUT whose resolved sha is not current on arrival ends in an
\* error and changes nothing.
C2_OneWritePerVersion ==
    [][ (ret'.op = "save" /\ backend = "filehost" /\ ret'.status \in PutAnswers) =>
          /\ (ret'.result = "true" /\ ret'.sha # NoSha) => ret'.sha \notin used
          /\ ret'.sha # ret'.cur => (ret'.result = "error" /\ ghFiles' = ghFiles) ]_vars

\* a save lost the race: the sha it resolved had been written over already
C2_Witness ==
    /\ PutAnswered
    /\ ret.sha # NoSha
    /\ ret.sha \in used
    /\ ret.result = "error"
    /\ ~ret.changed

\* C3: the folder-store adapter never sends a request carrying an access
\* token whose expiry instant has passed.
C3_NoExpiredTokenSent == wire.bearer # NoTok => wire.at < wire.bearer

\* C4: whenever the remote store rejects or fails the write or delete
\* request of a save or delete, the operation raises an error.
C4_WriteFailureRaises == ret.wfail => ret.result = "error"

\* C5: with no backend configured, a save raises an error.
C5_UnconfiguredSaveRaises ==
    (ret.op = "save" /\ ret.status \in {"disabled", "nobase"}) => ret.result = "error"

\* C6: load-all of every adapter ends with null or a mapping, whatever the
\* backend answers.
C6_LoadAllNeverRaises == ret.op = "load" => ret.result \in {"null", "map"}

\* a load-all met a transport failure and still returned normally
C6_Witness ==
    /\ ret.op = "load"
    /\ ret.status \in EnvFail
    /\ ret.result \in {"null", "map"}

\* C7: on the file host and the proxy store, a delete of an id whose
\* previous delete succeeded, with no write in between, succeeds without
\* sending a delete request.
C7_SecondDeleteIsNoOp ==
    (/\ ret.op = "delete"
     /\ backend \in {"filehost", "proxy"}
     /\ ret.clean
     /\ ret.status \in {"200", "404", "409"})
        => ret.result = "true" /\ ~ret.sent

\* C8: on the folder store, enabled and authenticated, a delete of an id
\* with no file in the folder returns true.
C8_DeleteAbsentSucceeds ==
    (ret.op = "delete" /\ backend = "folder" /\ ret.status = "absent")
        => ret.result = "true"

\* C9: on the file host and the proxy store, a get of an id after a
\* successful put of d, with no write or delete of the id in between,
\* returns d up to id and savedAt.
C9_RoundTrip ==
    (/\ ret.op = "get"
     /\ ret.expect # NoDoc
     /\ ret.result \in {"doc", "null"})
        => /\ ret.result = "doc"
           /\ ret.doc.meta = ret.expect.meta
           /\ ret.doc.title = ret.expect.title

\* C10: a listing visits every entry; an entry that cannot be fetched or
\* parsed or lacks meta is skipped, every other entry is in the result, so
\* entries with distinct ids give as many documents as there are valid ones.
C10_ListingResilience ==
    (ret.op = "load" /\ ret.result = "map" /\ ret.status = "200") =>
        /\ ret.visited = ret.listed
        /\ ret.good \subseteq ret.listed
        /\ \A k \in DOMAIN ret.sops : ret.sops[k].meta
        /\ Cardinality(DOMAIN ret.sops) <= Cardinality(ret.good)
        /\ ~ret.dup => Cardinality(DOMAIN ret.sops) = Cardinality(ret.good)

\* two valid files and the corrupt one were listed, two documents came back
C10_Witness ==
    /\ ret.op = "load"
    /\ ret.result = "map"
    /\ backend = "filehost"
    /\ ret.listed = {"sop-a", "sop-404", JunkName}
    /\ ret.good = {"sop-a", "sop-404"}
    /\ DOMAIN ret.sops = {"sop-a", "sop-404"}

\* C11: the mapping a listing returns has as many entries as there are
\* files that were fetched, parsed and found to carry meta, whatever ids
\* the files carry.
C11_CountEqualsParsed ==
    (ret.op = "load" /\ ret.result = "map" /\ ret.status = "200") =>
        Cardinality(DOMAIN ret.sops) = Cardinality(ret.good)

\* C12: when signOutGoogleDrive has returned, the access token is null,
\* isAuthenticated is false and the persisted token is gone, whether or not
\* the provider's sign-out succeeded.
C12_SignOutClears ==
    ret.op = "signout" =>
        /\ gd.accessToken = NoTok
        /\ ~gd.isAuthenticated
        /\ ~ls.token.present

\* C13: when authenticateGoogleDrive fails, at whatever step, the caller
\* gets an error, isAuthenticated is false and the attempt has stored no
\* session.
C13_SignInFailure ==
    [][ ret'.authFailed =>
          /\ ret'.op = "auth" => ret'.result = "error"
          /\ ~gd'.isAuthenticated
          /\ ls'.token \in {ls.token, NoLsToken} ]_vars

\* the user turned the sign-in down
C13_Witness ==
    /\ ret.authFailed
    /\ ret.op = "auth"
    /\ ret.status = "rejected"
    /\ ret.result = "error"
    /\ ~gd.isAuthenticated

\* the stored session is present and its expiry instant lies after t
StoredValid(l, t) == l.token.present /\ TokenValid(l.token, t)

\* this step is the initialisation of a freshly loaded page
IsPageLoad == calls' # calls /\ pc' = pc /\ ret' = NoRet

\* a successful sign-in stores the token and its expiry instant
SessionStored ==
    (ls'.token # ls.token /\ ls'.token.present) =>
        /\ gd'.isAuthenticated
        /\ ls'.token.access_token = gd'.accessToken
        /\ ls'.token.expires_at = now' + ExpiresIn

\* initialisation loads a stored session before its expiry instant and
\* removes it otherwise
SessionLoaded ==
    (IsPageLoad /\ ls.token.present) =>
        IF StoredValid(ls, now')
        THEN /\ gd'.isAuthenticated
             /\ gd'.accessToken = ls.token.access_token
             /\ ls'.token = ls.token
        ELSE ~gd'.isAuthenticated /\ ~ls'.token.present

\* no operation asks the user to sign in while a stored session is valid
NoSignInWhileValid ==
    \A p \in Procs :
        (pc'[p] = "gdSignIn" /\ loc'[p].op # "auth") => ~StoredValid(ls', now')

\* C14: a successful sign-in stores the session; initialisation and
\* operations before the expiry instant find it valid and do no interactive
\* sign-in; a stored session that has expired is removed and not loaded.
C14_SessionPersistence ==
    [][SessionStored /\ SessionLoaded /\ NoSignInWhileValid]_vars

\* the entries of the store that a listing can fetch and parse with meta
ValidEntries ==
    IF backend = "filehost"
    THEN {n \in GhDir : EntryOk("200", Atob(ghFiles[n].content))}
    ELSE {x.id : x \in {y \in InFolder(srv.folderId) : EntryOk("200", y.text)}}

\* the call that just ended is a load-all that returned a mapping
Listed ==
    /\ backend \in {"filehost", "proxy"}
    /\ ret.op = "load" /\ ret.result = "map" /\ ret.status = "200"

\* after a successful save of id i with title T, load-all has key i with T
SavedIsListed ==
    (/\ Listed
     /\ ret.good = ValidEntries
     /\ lastPut.name # NoId
     /\ lastPut.doc.sopId = lastPut.name)
        => /\ lastPut.name \in DOMAIN ret.sops
           /\ ret.sops[lastPut.name].title = lastPut.doc.title

\* a delete the store answered returns true
DeleteReturnsTrue ==
    (/\ backend \in {"filehost", "proxy"}
     /\ ret.op = "delete"
     /\ ret.status \in {"200", "404"})
        => ret.result = "true"

\* after that delete, get finds nothing and load-all has no such key
DeletedIsGone ==
    /\ (/\ backend \in {"filehost", "proxy"}
        /\ ret.op = "get"
        /\ gone.name = ret.id
        /\ ret.status \in {"200", "404"})
           => ret.result = "null"
    /\ (Listed /\ gone.name # NoId) => gone.name \notin DOMAIN ret.sops

\* C15: with one caller at a time on the file host or the proxy store, a
\* saved document with id i and title T is in load-all under key i with
\* title T, a following delete of i returns true, and after it get(i) finds
\* nothing and load-all no longer has key i.
C15_SaveLoadDeleteGet == SavedIsListed /\ DeleteReturnsTrue /\ DeletedIsGone

\* a load-all after a save shows the saved document under its id
C15_Witness ==
    /\ Listed
    /\ lastPut.name = "sop-a"
    /\ lastPut.doc.sopId = "sop-a"
    /\ "sop-a" \in DOMAIN ret.sops
    /\ ret.sops["sop-a"].title = lastPut.doc.title
    /\ lastPut.doc.title = <<34, 233>>

\* the service is without folder id or credentials
Unconfigured == srv.folderId = NoFolder \/ ~srv.creds

\* the call that just ended is a request on one of the four routes that the
\* service answered
Routed ==
    /\ backend = "proxy"
    /\ ret.op \in {"load", "save", "delete", "get"}
    /\ ret.http # "none"

C17_UnknownRouteNotFound ==
    (ret.op = "other" /\ ret.http # "none") => ret.http = "404"

\* C18: each operation of the thin-proxy adapter sends exactly one request,
\* and a transport failure or a status outside 2xx reaches the caller as an
\* error, for load-all, save and delete alike.
C18_ProxyPassThrough ==
    (/\ backend = "proxy"
     /\ ret.op \in {"load", "save", "delete"}
     /\ ret.status # "nobase")
        => /\ ret.reqs = 1
           /\ ~Ok(ret.status) => ret.result = "error"

\* a step adds no file under a name that already has a file in its folder
NoTwinCreated ==
    \A x \in dFiles' : ~DHas(x.id) => Matching(x.name, x.parent) = {}

\* a save that returns true leaves its document in a file of its name
SavedInPlace ==
    (/\ backend' \in {"folder", "proxy"}
     /\ ret'.op = "save"
     /\ ret'.result = "true"
     /\ ret'.status # "net")
        => \E x \in dFiles' : /\ x.name = ret'.id
                              /\ DHas(x.id) \/ Matching(x.name, x.parent) = {}

\* C19: with one put at a time on a folder store, a put of an id that has a
\* file updates that file: no second file of that name is created, also when
\* the lookup of the existing file fails.
C19_UpdateInPlace == [][NoTwinCreated /\ SavedInPlace]_vars

\* the upload of a save ends: on failure the call raises and nothing is
\* written, so a file created by this call stays empty; on success the file
\* holds the document and no file was added
UploadEnds(p) ==
    (pc[p] = "gdSaveUpload" /\ pc'[p] = "idle") =>
        IF ret'.result = "true"
        THEN /\ DHas(loc[p].file)
             /\ {x.id : x \in dFiles'} = {x.id : x \in dFiles}
             /\ \E x \in dFiles' : /\ x.id = loc[p].file
                                   /\ x.name = loc[p].id
                                   /\ x.text = Utf8(JSONStringify(loc[p].doc))
        ELSE /\ ret'.result = "error"
             /\ dFiles' = dFiles
             /\ loc[p].fresh => DText(loc[p].file) = EmptyText

\* an answered lookup that finds files of the name picks one of them, and
\* nothing is created after it
LookupFinds(p) ==
    /\ (pc[p] = "gdSaveList" /\ pc'[p] = "gdSaveMeta")
          => \E x \in Matching(loc[p].id, loc[p].folder) : loc'[p].file = x.id
    /\ (pc[p] = "gdSaveList" /\ pc'[p] = "gdSaveCreate" /\ loc'[p].looked)
          => Matching(loc[p].id, loc[p].folder) = {}
    /\ (pc[p] = "gdSaveMeta" /\ pc'[p] # "gdSaveMeta")
          => /\ dFiles' = dFiles
             /\ pc'[p] \in {"gdSaveUpload", "idle"}
             /\ pc'[p] = "idle" => ret'.result = "error"

\* C20: in the Drive adapter a put whose upload fails raises and leaves the
\* file it created empty; a later put whose lookup is answered finds that
\* file by name, uploads into it without creating another, and the file then
\* holds the document.
C20_RetryRepairs == [][\A p \in FolderProcs : UploadEnds(p) /\ LookupFinds(p)]_vars

\* a save succeeded into a file that an earlier failed save had left empty,
\* and it is the only file of its name
C20_Witness ==
    /\ backend = "folder"
    /\ ret.op = "save"
    /\ ret.result = "true"
    /\ ret.repaired
    /\ DText(ret.file) = Utf8(JSONStringify(ret.doc))
    /\ Cardinality(Matching(ret.id, DFile(ret.file).parent)) = 1

\* C21: starting without a folder id, a folder is created only while no
\* folder id is known, and its id is then recorded in memory and in the
\* persisted configuration; once an id is known, every later getSopsFolder
\* (same or re-initialised session) resolves to that id and no further
\* folder is created.
C21_FolderCreatedOnce ==
    [][/\ dFolders' # dFolders
            => /\ gd.folderId = NoFolder
               /\ \E f \in dFolders' \ dFolders :
                     /\ dFolders' = dFolders \cup {f}
                     /\ gd'.folderId = f
                     /\ ls'.config.folderId = f
       /\ gd.folderId # NoFolder => gd'.folderId = gd.folderId
       /\ ls.config.folderId # NoFolder => ls'.config.folderId = ls.config.folderId
       /\ \A p \in FolderProcs :
             (pc[p] \in {"gdFolderGet", "gdFolderCreate"}
              /\ pc'[p] \notin {"gdFolderGet", "gdFolderCreate", "idle"}
              /\ gd.folderId # NoFolder)
                => loc'[p].folder = gd.folderId]_vars

\* C22: on the file host, when the repository exists and the listing of the
\* sops directory is answered NotFound, load-all returns the empty mapping
\* after the two requests made so far: no file is fetched.
C22_FirstUseEmpty ==
    [][\A p \in Procs :
          /\ (pc[p] = "loadDir" /\ GhDir = {}) => pc'[p] \in {"loadDir", "idle"}
          /\ (pc[p] = "loadDir" /\ pc'[p] = "idle" /\ ret'.status = "404")
                => /\ ret'.result = "map"
                   /\ ret'.sops = NoMap
                   /\ ret'.reqs = 2]_vars

\* a load-all of an existing repository without sops directory returned
\* the empty mapping
C22_Witness ==
    /\ backend = "filehost"
    /\ repoExists
    /\ GhDir = {}
    /\ ret.op = "load"
    /\ ret.status = "404"
    /\ ret.reqs = 2
    /\ ret.result = "map"
    /\ ret.sops = NoMap

\* C23: within one delete on the file host, the DELETE is sent only after the
\* GET of the same path succeeded in that call and carries the sha that GET
\* returned; when the GET is answered NotFound no DELETE is sent and the call
\* returns true.
C23_DeleteProtocolOrder ==
    [][\A p \in Procs :
          /\ (pc'[p] = "delDelete" /\ pc[p] # "delDelete")
                => /\ pc[p] = "delGet"
                   /\ GhExists(loc[p].id)
                   /\ loc'[p].id = loc[p].id
                   /\ loc'[p].sha = ghFiles[loc[p].id].sha
          /\ (pc[p] = "delDelete" /\ pc'[p] = "idle")
                => /\ ret'.sent
                   /\ ret'.id = loc[p].id
                   /\ ret'.sha = loc[p].sha
                   /\ ret'.changed => ret'.sha = ret'.cur
          /\ (pc[p] = "delGet" /\ pc'[p] = "idle")
                => /\ ~ret'.sent
                   /\ ghFiles' = ghFiles
                   /\ ret'.status = "404" => ret'.result = "true"]_vars

\* a delete whose DELETE carried the sha of its GET removed the file
C23_Witness ==
    /\ backend = "filehost"
    /\ ret.op = "delete"
    /\ ret.sent
    /\ ret.sha # NoSha
    /\ ret.sha = ret.cur
    /\ ret.changed
    /\ ret.result = "true"

\* C24: on the file host a delete removes only the version whose sha it
\* resolved; when a save succeeded between the GET and the DELETE of the
\* delete, the delete ends with an error and the saved document stays.
C24_DeleteVersusSave ==
    (/\ backend = "filehost"
     /\ ret.op = "delete"
     /\ ret.sent
     /\ ret.status \notin EnvFail)
        => /\ ret.changed => ret.sha = ret.cur
           /\ (ret.cur # NoSha /\ ret.sha # ret.cur)
                 => /\ ret.result = "error"
                    /\ ~ret.changed
                    /\ CurSha(ret.id) = ret.cur

\* C25: every call of initGoogleAPI settles, and settles once: when the
\* client library does not load, the timer rejects the call; a settled call
\* polls no more and keeps its outcome.
C25_BootstrapBounded ==
    /\ \A p \in Procs :
          (pc[p] = "apiWait" /\ loc[p].settled = "pending")
             ~> (pc[p] = "apiWait" /\ loc[p].settled # "pending")
    /\ [](\A p \in Procs :
             pc[p] = "apiWait" =>
                /\ loc[p].settled # "pending" => ~loc[p].poll
                /\ ~loc[p].timer => loc[p].settled # "pending"
                /\ (~loc[p].timer /\ gapi.state = "none")
                      => loc[p].settled = "rejected"
                /\ loc[p].settled = "resolved" => gapi.state # "none")
    /\ [][\A p \in Procs :
             (pc[p] = "apiWait" /\ loc[p].settled # "pending" /\ pc'[p] = "apiWait")
                => loc'[p].settled = loc[p].settled]_vars

\* the library never showed up and the timer rejected the call
C25_Witness ==
    \E p \in Procs :
        /\ pc[p] = "apiWait"
        /\ ~gapi.script
        /\ loc[p].settled = "rejected"
        /\ ~loc[p].poll

\* C26: after a successful save of a document submitted without an id, the
\* document persisted carries the assigned id, which is the id in its file
\* name, so that saving it again goes to the same file.
C26_AssignedIdPersisted ==
    (ret.op = "save" /\ Ok(ret.status) /\ ret.id \in GenIds)
        => /\ ret.doc.sopId = ret.id
           /\ backend = "filehost"
                 => JSONParse(Atob(ghFiles[ret.id].content)).sopId = ret.id
           /\ backend \in {"folder", "proxy"}
                 => \A x \in dFiles :
                       (x.name = ret.id /\ JSONParseOk(x.text))
                          => JSONParse(x.text).sopId = ret.id

\* C27: when a request of the file-host load-all fails for a reason other
\* than NotFound, the outcome is a failure (null or an error) that the caller
\* can answer from its cache, never a mapping.
C27_FailedLoadIsNotEmpty ==
    (/\ backend = "filehost"
     /\ ret.op = "load"
     /\ ret.reqs \in {1, 2}
     /\ ret.status \in EnvFail)
        => ret.result \in {"null", "error"}

\* C28: a save, load-all or delete of the folder-store adapter that starts
\* enabled and without a session goes through authenticateGoogleDrive before
\* anything else: it does not return without having tried, and its first
\* request to the store is sent with a session.
C28_SessionBeforeOperation ==
    [][\A p \in FolderProcs :
          /\ (/\ pc[p] = "idle"
              /\ calls' = calls + 1
              /\ gd.isEnabled
              /\ ~gd.isAuthenticated
              /\ \/ loc'[p].op \in {"save", "load", "delete"}
                 \/ pc'[p] = "idle" /\ ret'.op \in {"save", "load", "delete"})
                => \/ pc'[p] \in {"gdAuthApi", "gdAuthInit"}
                   \/ pc'[p] = "idle" /\ ret'.auth
          /\ (/\ pc'[p] \in {"gdFolderGet", "gdFolderCreate"}
              /\ pc[p] \notin {"gdFolderGet", "gdFolderCreate"})
                => gd'.isAuthenticated]_vars

\* C29: whatever the interleaving of two puts of an id that has no file yet,
\* the folder never holds two files of the same name.
C29_OneFilePerName ==
    \A x \in dFiles : \A y \in dFiles :
        (x.name = y.name /\ x.parent = y.parent) => x.id = y.id

\* C30: while the configured folder exists in the store, no step replaces
\* the folder id, in memory or in the persisted configuration, and no folder
\* is created, whatever the verification request is answered.
C30_ConfiguredFolderKept ==
    [][(gd.folderId # NoFolder /\ gd.folderId \in dFolders)
          => /\ gd'.folderId = gd.folderId
             /\ ls'.config.folderId = ls.config.folderId
             /\ dFolders' = dFolders]_vars

\* C31: the handler of the proxy service sends one response for every
\* request that reaches it, on every path: preflight, missing configuration,
\* each route, unknown route, exception.
C31_OneResponsePerRequest ==
    (/\ backend = "proxy"
     /\ ret.op \in {"load", "save", "delete", "get", "other"}
     /\ ret.reqs = 1
     /\ ret.http # "none" \/ ret.threw)
        => ret.http \in {"200", "204", "404", "500", "503"}

=============================================================================
